---- MODULE Spec2Model ----
(***************************************************************************)
(* Token-Swap: the instruction dispatcher of src/lib.rs (the deployed      *)
(* library) and of src/main.rs (the second copy of the program), the       *)
(* TokenConfig record kept in the configuration account, and the SPL token *)
(* ledger the handlers delegate to.                                        *)
(*                                                                         *)
(* One step of the model is one call of process_instruction: a request     *)
(* (instruction bytes + positional accounts) runs to completion.           *)
(*                                                                         *)
(* Widths: a u64 is U64Len = 8 bytes, a Pubkey 32 bytes, the record 41     *)
(* bytes, as in the source.  A byte ranges over 0..ByteBase-1 instead of   *)
(* 0..255 so that an 8-byte little-endian value fits the checker's         *)
(* integers; u64 arithmetic is therefore modulo ByteBase^8.                *)
(***************************************************************************)
EXTENDS Integers, Sequences, FiniteSets, TLC

VARIABLES
    program,          \* "lib" (src/lib.rs) or "main" (src/main.rs)
    config,           \* data of each configuration account (raw bytes)
    supply,           \* Mint.supply of the mint-state account, kept by the ledger
    nreq,             \* number of requests processed so far
    req,              \* the last request
    handler,          \* the handler the last request was dispatched to
    res,              \* the ProgramResult of the last request
    cpi               \* the instruction the last request passed to invoke()

vars == <<program, config, supply, nreq, req, handler, res, cpi>>

----------------------------------------------------------------------------
(* Bounds *)

ByteBase == 5        \* byte values are 0..ByteBase-1
MaxRequests == 3     \* requests per behaviour
MaxSizeSlack == 1    \* configuration accounts of 41-slack .. 41+slack bytes

----------------------------------------------------------------------------
(* Bytes, u64, Pubkey *)

U64Len == 8
PubkeyLen == 32
InitPayloadLen == 40

Byte == 0 .. (ByteBase - 1)
U64Mod == ByteBase ^ U64Len
U64Max == U64Mod - 1

\* u64::to_le_bytes
to_le_bytes(v) == [i \in 1..U64Len |-> (v \div (ByteBase ^ (i - 1))) % ByteBase]

RECURSIVE le_value(_, _)
le_value(b, i) ==
    IF i > Len(b) THEN 0 ELSE b[i] * (ByteBase ^ (i - 1)) + le_value(b, i + 1)

\* u64::from_le_bytes
from_le_bytes(b) == le_value(b, 1)

\* Pubkey number n as its 32 bytes; Pubkey(0) is Pubkey::default()
Pubkey(n) ==
    [i \in 1..PubkeyLen |->
        IF i = 1 THEN n % ByteBase ELSE IF i = 2 THEN (n \div ByteBase) % ByteBase ELSE 0]

----------------------------------------------------------------------------
(* ProgramResult *)

\* CustomError discriminants (lib.rs has all three, main.rs only the first)
MaxSupplyExceeded == 1
UnauthorizedMint == 2
InvalidAmount == 3

Ok == [tag |-> "Ok", code |-> 0]
ProgramError(name) == [tag |-> name, code |-> 0]

\* impl From<CustomError> for ProgramError: ProgramError::Custom(e as u32)
Custom(e) == [tag |-> "Custom", code |-> e]

\* the program aborted on an arithmetic overflow (overflow-checks build)
Panicked == [tag |-> "Panic", code |-> 0]

\* no request yet
NoResult == [tag |-> "None", code |-> 0]

----------------------------------------------------------------------------
(* TokenConfig and its borsh encoding *)

TokenConfig(max_supply, initialized, admin_pubkey) ==
    [max_supply |-> max_supply, initialized |-> initialized, admin_pubkey |-> admin_pubkey]

\* #[derive(Default)]
TokenConfigDefault == TokenConfig(0, FALSE, Pubkey(0))

\* the fields out of declaration order: admin_pubkey first
try_to_vec_admin_first(c) ==
    c.admin_pubkey \o << IF c.initialized THEN 1 ELSE 0 >> \o to_le_bytes(c.max_supply)

\* BorshSerialize: the fields in declaration order, fixed width
try_to_vec(c) ==
    to_le_bytes(c.max_supply) \o << IF c.initialized THEN 1 ELSE 0 >> \o c.admin_pubkey

SerializedLen == Len(try_to_vec(TokenConfigDefault))

\* BorshDeserialize::try_from_slice: the slice must hold exactly one record
\* (short input, a bool byte other than 0/1, and left-over bytes are errors)
try_from_slice(data) ==
    IF Len(data) /= U64Len + 1 + PubkeyLen
    THEN [ok |-> FALSE, value |-> TokenConfigDefault]
    ELSE IF data[U64Len + 1] \notin {0, 1}
    THEN [ok |-> FALSE, value |-> TokenConfigDefault]
    ELSE [ok |-> TRUE,
          value |-> TokenConfig(from_le_bytes(SubSeq(data, 1, U64Len)),
                                data[U64Len + 1] = 1,
                                SubSeq(data, U64Len + 2, U64Len + 1 + PubkeyLen))]

\* BorshSerialize::serialize into `&mut [u8]`: the encoding overwrites the
\* front of the buffer; a buffer that is too short takes what fits and fails
serialize(c, buf) ==
    LET enc == try_to_vec(c) IN
    IF Len(buf) >= Len(enc)
    THEN [ok |-> TRUE, data |-> enc \o SubSeq(buf, Len(enc) + 1, Len(buf))]
    ELSE [ok |-> FALSE, data |-> SubSeq(enc, 1, Len(buf))]

----------------------------------------------------------------------------
(* Accounts *)

ConfigAccounts == {"config_small", "config", "config_large"}
Signers == {"system", "alice", "bob"}
AccountIds == Signers \cup {"source", "destination", "mint", "token_program"} \cup ConfigAccounts

\* AccountInfo.key
KeyOf(id) ==
    CASE id = "system" -> Pubkey(0)
      [] id = "alice" -> Pubkey(1)
      [] id = "bob" -> Pubkey(2)
      [] id = "source" -> Pubkey(3)
      [] id = "destination" -> Pubkey(4)
      [] id = "mint" -> Pubkey(5)
      [] id = "token_program" -> Pubkey(6)
      [] id = "config_small" -> Pubkey(7)
      [] id = "config" -> Pubkey(8)
      [] id = "config_large" -> Pubkey(9)

\* AccountInfo.data_len() of the configuration accounts, fixed at allocation
ConfigLen(id) ==
    CASE id = "config_small" -> SerializedLen - MaxSizeSlack
      [] id = "config" -> SerializedLen
      [] id = "config_large" -> SerializedLen + MaxSizeSlack

AccountInfo(id, is_signer) == [id |-> id, is_signer |-> is_signer]

\* the instruction handed to invoke(); accounts are in the callee's order
Instruction(kind, accounts, amount) == [kind |-> kind, accounts |-> accounts, amount |-> amount]
NoIx == Instruction("none", << >>, 0)

\* what a handler returns: its result, the configuration data it leaves, and
\* the instruction it reached invoke() with
Outcome(r, cfg, ix) == [res |-> r, config |-> cfg, ix |-> ix]

----------------------------------------------------------------------------
(* src/lib.rs *)

\* the length test as `< 8`: a longer payload decodes from its first 8 bytes
decode_amount_at_least(data) ==
    IF Len(data) < U64Len
    THEN [ok |-> FALSE, err |-> Custom(InvalidAmount), amount |-> 0]
    ELSE [ok |-> TRUE, err |-> Ok, amount |-> from_le_bytes(SubSeq(data, 1, U64Len))]

\* decode_amount: Ok(amount) only for exactly 8 bytes
decode_amount(data) ==
    IF Len(data) /= U64Len
    THEN [ok |-> FALSE, err |-> Custom(InvalidAmount), amount |-> 0]
    ELSE [ok |-> TRUE, err |-> Ok, amount |-> from_le_bytes(data)]

\* check_signer dropped: every account passes
check_signer_absent(account) == Ok

\* check_signer
check_signer(account) ==
    IF ~account.is_signer THEN ProgramError("MissingRequiredSignature") ELSE Ok

\* the admin comparison dropped: every authority passes
not_admin_never(mint_authority, token_config) == FALSE

\* `*mint_authority.key != token_config.admin_pubkey`
not_admin(mint_authority, token_config) ==
    KeyOf(mint_authority.id) /= token_config.admin_pubkey

\* `current_supply + amount` on u64: the sum, and whether it left the range
u64_add(a, b) == [value |-> (a + b) % U64Mod, overflow |-> a + b > U64Max]

\* the cap comparison dropped: no sum exceeds the cap
cap_exceeded_never(sum, max_supply) == FALSE

\* `current_supply + amount > token_config.max_supply`, on the sum computed
cap_exceeded(sum, max_supply) == sum > max_supply

\* `Mint::unpack(&mint_account.try_borrow_data()?)`: only the data of a mint
\* unpacks; any other account fails the length test of Pack::unpack
unpack_fails(mint_account) == mint_account.id /= "mint"

\* the zero test dropped: a zero amount goes on to the ledger
zero_amount_never(amount) == FALSE

\* `amount == 0`
zero_amount(amount) == amount = 0

\* the flag test dropped: an initialized record is written again
already_initialized_never(token_config) == FALSE

\* `token_config.initialized`
already_initialized(token_config) == token_config.initialized

\* process_transfer (lib.rs)
lib_process_transfer(accounts, instruction_data, cfg) ==
    LET a == decode_amount(instruction_data) IN
    IF ~a.ok THEN Outcome(a.err, cfg, NoIx)
    ELSE IF zero_amount(a.amount) THEN Outcome(Custom(InvalidAmount), cfg, NoIx)
    ELSE IF Len(accounts) < 4 THEN Outcome(ProgramError("NotEnoughAccountKeys"), cfg, NoIx)
    ELSE LET from_account == accounts[1]
             to_account == accounts[2]
             authority == accounts[3]
         IN  Outcome(Ok, cfg,
                     Instruction("transfer",
                                 << from_account.id, to_account.id, authority.id >>,
                                 a.amount))

\* the cap comparison ahead of the admin comparison
lib_process_mint_cap_first(accounts, instruction_data, cfg, current_supply, oc) ==
    LET a == decode_amount(instruction_data) IN
    IF ~a.ok THEN Outcome(a.err, cfg, NoIx)
    ELSE IF Len(accounts) < 5 THEN Outcome(ProgramError("NotEnoughAccountKeys"), cfg, NoIx)
    ELSE LET mint_account == accounts[1]
             destination_account == accounts[2]
             mint_authority == accounts[3]
             config_account == accounts[5]
             signed == check_signer(mint_authority)
             loaded == try_from_slice(cfg[config_account.id])
             token_config == loaded.value
             sum == u64_add(current_supply, a.amount)
         IN  IF signed /= Ok THEN Outcome(signed, cfg, NoIx)
             ELSE IF ~loaded.ok THEN Outcome(ProgramError("InvalidAccountData"), cfg, NoIx)
             ELSE IF unpack_fails(mint_account)
             THEN Outcome(ProgramError("InvalidAccountData"), cfg, NoIx)
             ELSE IF sum.overflow /\ oc THEN Outcome(Panicked, cfg, NoIx)
             ELSE IF cap_exceeded(sum.value, token_config.max_supply)
             THEN Outcome(Custom(MaxSupplyExceeded), cfg, NoIx)
             ELSE IF not_admin(mint_authority, token_config)
             THEN Outcome(Custom(UnauthorizedMint), cfg, NoIx)
             ELSE Outcome(Ok, cfg,
                          Instruction("mint_to",
                                      << mint_account.id, destination_account.id,
                                         mint_authority.id >>,
                                      a.amount))

\* process_mint (lib.rs)
lib_process_mint(accounts, instruction_data, cfg, current_supply, oc) ==
    LET a == decode_amount(instruction_data) IN
    IF ~a.ok THEN Outcome(a.err, cfg, NoIx)
    ELSE IF Len(accounts) < 5 THEN Outcome(ProgramError("NotEnoughAccountKeys"), cfg, NoIx)
    ELSE LET mint_account == accounts[1]
             destination_account == accounts[2]
             mint_authority == accounts[3]
             config_account == accounts[5]
             signed == check_signer(mint_authority)
             loaded == try_from_slice(cfg[config_account.id])
             token_config == loaded.value
             sum == u64_add(current_supply, a.amount)
         IN  IF signed /= Ok THEN Outcome(signed, cfg, NoIx)
             ELSE IF ~loaded.ok THEN Outcome(ProgramError("InvalidAccountData"), cfg, NoIx)
             ELSE IF not_admin(mint_authority, token_config)
             THEN Outcome(Custom(UnauthorizedMint), cfg, NoIx)
             ELSE IF unpack_fails(mint_account)
             THEN Outcome(ProgramError("InvalidAccountData"), cfg, NoIx)
             ELSE IF sum.overflow /\ oc THEN Outcome(Panicked, cfg, NoIx)
             ELSE IF cap_exceeded(sum.value, token_config.max_supply)
             THEN Outcome(Custom(MaxSupplyExceeded), cfg, NoIx)
             ELSE Outcome(Ok, cfg,
                          Instruction("mint_to",
                                      << mint_account.id, destination_account.id,
                                         mint_authority.id >>,
                                      a.amount))

\* the burn instruction built with the token account and the mint exchanged
lib_process_burn_swapped(accounts, instruction_data, cfg) ==
    LET a == decode_amount(instruction_data) IN
    IF ~a.ok THEN Outcome(a.err, cfg, NoIx)
    ELSE IF Len(accounts) < 4 THEN Outcome(ProgramError("NotEnoughAccountKeys"), cfg, NoIx)
    ELSE LET burn_account == accounts[1]
             mint_account == accounts[2]
             burn_authority == accounts[3]
             signed == check_signer(burn_authority)
         IN  IF signed /= Ok THEN Outcome(signed, cfg, NoIx)
             ELSE Outcome(Ok, cfg,
                          Instruction("burn",
                                      << mint_account.id, burn_account.id,
                                         burn_authority.id >>,
                                      a.amount))

\* process_burn (lib.rs)
lib_process_burn(accounts, instruction_data, cfg) ==
    LET a == decode_amount(instruction_data) IN
    IF ~a.ok THEN Outcome(a.err, cfg, NoIx)
    ELSE IF Len(accounts) < 4 THEN Outcome(ProgramError("NotEnoughAccountKeys"), cfg, NoIx)
    ELSE LET burn_account == accounts[1]
             mint_account == accounts[2]
             burn_authority == accounts[3]
             signed == check_signer(burn_authority)
         IN  IF signed /= Ok THEN Outcome(signed, cfg, NoIx)
             ELSE Outcome(Ok, cfg,
                          Instruction("burn",
                                      << burn_account.id, mint_account.id,
                                         burn_authority.id >>,
                                      a.amount))

\* the record update of process_initialize, written back to the account data
write_config(cfg, id, token_config, admin_pubkey, max_supply) ==
    LET updated == [token_config EXCEPT !.admin_pubkey = admin_pubkey,
                                        !.max_supply = max_supply,
                                        !.initialized = TRUE]
        written == serialize(updated, cfg[id])
    IN  Outcome(IF written.ok THEN Ok ELSE ProgramError("BorshIoError"),
                [cfg EXCEPT ![id] = written.data], NoIx)

\* the flag tested after the record was written back
lib_process_initialize_late_check(accounts, rest_of_data, cfg) ==
    IF Len(rest_of_data) < InitPayloadLen
    THEN Outcome(ProgramError("InvalidInstructionData"), cfg, NoIx)
    ELSE IF Len(accounts) < 1
    THEN Outcome(ProgramError("NotEnoughAccountKeys"), cfg, NoIx)
    ELSE LET id == accounts[1].id
             loaded == try_from_slice(cfg[id])
             written == write_config(cfg, id, loaded.value,
                                     SubSeq(rest_of_data, 1, PubkeyLen),
                                     from_le_bytes(SubSeq(rest_of_data, PubkeyLen + 1,
                                                          InitPayloadLen)))
         IN  IF Len(cfg[id]) < SerializedLen \/ ~loaded.ok
             THEN Outcome(ProgramError("InvalidAccountData"), cfg, NoIx)
             ELSE IF already_initialized(loaded.value)
             THEN Outcome(ProgramError("AccountAlreadyInitialized"), written.config, NoIx)
             ELSE written

\* process_initialize (lib.rs)
lib_process_initialize(accounts, rest_of_data, cfg) ==
    IF Len(rest_of_data) < InitPayloadLen
    THEN Outcome(ProgramError("InvalidInstructionData"), cfg, NoIx)
    ELSE LET admin_pubkey == SubSeq(rest_of_data, 1, PubkeyLen)
             max_supply == from_le_bytes(SubSeq(rest_of_data, PubkeyLen + 1, InitPayloadLen))
         IN  IF Len(accounts) < 1
             THEN Outcome(ProgramError("NotEnoughAccountKeys"), cfg, NoIx)
             ELSE LET config_account == accounts[1]
                      loaded == try_from_slice(cfg[config_account.id])
                  IN  IF Len(cfg[config_account.id]) < SerializedLen
                      THEN Outcome(ProgramError("InvalidAccountData"), cfg, NoIx)
                      ELSE IF ~loaded.ok
                      THEN Outcome(ProgramError("InvalidAccountData"), cfg, NoIx)
                      ELSE IF already_initialized(loaded.value)
                      THEN Outcome(ProgramError("AccountAlreadyInitialized"), cfg, NoIx)
                      ELSE write_config(cfg, config_account.id, loaded.value,
                                        admin_pubkey, max_supply)

\* the `_` arm falling through to the first handler
lib_dispatch_fallthrough(instruction_data) ==
    IF instruction_data = << >> THEN "none"
    ELSE CASE Head(instruction_data) = 1 -> "mint"
           [] Head(instruction_data) = 2 -> "burn"
           [] Head(instruction_data) = 3 -> "initialize"
           [] OTHER -> "transfer"

\* the handler process_instruction selects, "none" when it selects none
lib_dispatch(instruction_data) ==
    IF instruction_data = << >> THEN "none"
    ELSE CASE Head(instruction_data) = 0 -> "transfer"
           [] Head(instruction_data) = 1 -> "mint"
           [] Head(instruction_data) = 2 -> "burn"
           [] Head(instruction_data) = 3 -> "initialize"
           [] OTHER -> "none"

\* process_instruction (lib.rs)
lib_process_instruction(accounts, instruction_data, cfg, current_supply, oc) ==
    LET h == lib_dispatch(instruction_data)
        rest_of_data == Tail(instruction_data)
    IN  CASE h = "transfer" -> lib_process_transfer(accounts, rest_of_data, cfg)
          [] h = "mint" -> lib_process_mint(accounts, rest_of_data, cfg, current_supply, oc)
          [] h = "burn" -> lib_process_burn(accounts, rest_of_data, cfg)
          [] h = "initialize" -> lib_process_initialize(accounts, rest_of_data, cfg)
          [] OTHER -> Outcome(ProgramError("InvalidInstructionData"), cfg, NoIx)

----------------------------------------------------------------------------
(* src/main.rs *)

\* `u64::from_le_bytes(instruction_data.try_into().map_err(..)?)`
main_decode_amount(data) ==
    IF Len(data) /= U64Len
    THEN [ok |-> FALSE, err |-> ProgramError("InvalidInstructionData"), amount |-> 0]
    ELSE [ok |-> TRUE, err |-> Ok, amount |-> from_le_bytes(data)]

\* process_transfer (main.rs)
main_process_transfer(accounts, instruction_data, cfg) ==
    IF Len(accounts) < 4 THEN Outcome(ProgramError("NotEnoughAccountKeys"), cfg, NoIx)
    ELSE LET from_account == accounts[1]
             to_account == accounts[2]
             authority == accounts[3]
             a == main_decode_amount(instruction_data)
         IN  IF ~a.ok THEN Outcome(a.err, cfg, NoIx)
             ELSE IF zero_amount(a.amount)
             THEN Outcome(ProgramError("InvalidInstructionData"), cfg, NoIx)
             ELSE Outcome(Ok, cfg,
                          Instruction("transfer",
                                      << from_account.id, to_account.id, authority.id >>,
                                      a.amount))

\* process_mint (main.rs)
main_process_mint(accounts, instruction_data, cfg, current_supply, oc) ==
    IF Len(accounts) < 5 THEN Outcome(ProgramError("NotEnoughAccountKeys"), cfg, NoIx)
    ELSE LET mint_account == accounts[1]
             destination_account == accounts[2]
             mint_authority == accounts[3]
             config_account == accounts[5]
             a == main_decode_amount(instruction_data)
             loaded == try_from_slice(cfg[config_account.id])
             token_config == loaded.value
             sum == u64_add(current_supply, a.amount)
         IN  IF ~a.ok THEN Outcome(a.err, cfg, NoIx)
             ELSE IF ~loaded.ok THEN Outcome(ProgramError("InvalidAccountData"), cfg, NoIx)
             ELSE IF not_admin(mint_authority, token_config)
             THEN Outcome(ProgramError("MissingRequiredSignature"), cfg, NoIx)
             ELSE IF unpack_fails(mint_account)
             THEN Outcome(ProgramError("InvalidAccountData"), cfg, NoIx)
             ELSE IF sum.overflow /\ oc THEN Outcome(Panicked, cfg, NoIx)
             ELSE IF cap_exceeded(sum.value, token_config.max_supply)
             THEN Outcome(Custom(MaxSupplyExceeded), cfg, NoIx)
             ELSE Outcome(Ok, cfg,
                          Instruction("mint_to",
                                      << mint_account.id, destination_account.id,
                                         mint_authority.id >>,
                                      a.amount))

\* process_burn (main.rs)
main_process_burn(accounts, instruction_data, cfg) ==
    IF Len(accounts) < 4 THEN Outcome(ProgramError("NotEnoughAccountKeys"), cfg, NoIx)
    ELSE LET burn_account == accounts[1]
             mint_account == accounts[2]
             burn_authority == accounts[3]
             a == main_decode_amount(instruction_data)
         IN  IF ~a.ok THEN Outcome(a.err, cfg, NoIx)
             ELSE Outcome(Ok, cfg,
                          Instruction("burn",
                                      << burn_account.id, mint_account.id,
                                         burn_authority.id >>,
                                      a.amount))

\* the configuration account required to sign its own initialization
main_process_initialize_signed(accounts, admin_pubkey, max_supply, cfg) ==
    IF Len(accounts) < 1 THEN Outcome(ProgramError("NotEnoughAccountKeys"), cfg, NoIx)
    ELSE LET config_account == accounts[1]
             loaded == try_from_slice(cfg[config_account.id])
         IN  IF check_signer(config_account) /= Ok
             THEN Outcome(check_signer(config_account), cfg, NoIx)
             ELSE IF ~loaded.ok THEN Outcome(ProgramError("InvalidAccountData"), cfg, NoIx)
             ELSE IF already_initialized(loaded.value)
             THEN Outcome(ProgramError("AccountAlreadyInitialized"), cfg, NoIx)
             ELSE write_config(cfg, config_account.id, loaded.value,
                               admin_pubkey, max_supply)

\* process_initialize (main.rs)
main_process_initialize(accounts, admin_pubkey, max_supply, cfg) ==
    IF Len(accounts) < 1 THEN Outcome(ProgramError("NotEnoughAccountKeys"), cfg, NoIx)
    ELSE LET config_account == accounts[1]
             loaded == try_from_slice(cfg[config_account.id])
         IN  IF ~loaded.ok THEN Outcome(ProgramError("InvalidAccountData"), cfg, NoIx)
             ELSE IF already_initialized(loaded.value)
             THEN Outcome(ProgramError("AccountAlreadyInitialized"), cfg, NoIx)
             ELSE write_config(cfg, config_account.id, loaded.value,
                               admin_pubkey, max_supply)

\* the match of process_instruction (main.rs)
main_dispatch(instruction_data) ==
    IF instruction_data = << >> THEN "none"
    ELSE CASE Head(instruction_data) = 0 -> "transfer"
           [] Head(instruction_data) = 1 -> "mint"
           [] Head(instruction_data) = 2 -> "burn"
           [] Head(instruction_data) = 3 -> "initialize"
           [] OTHER -> "none"

\* process_instruction (main.rs); opcode 3 decodes its payload in place
main_process_instruction(accounts, instruction_data, cfg, current_supply, oc) ==
    LET h == main_dispatch(instruction_data)
        rest_of_data == Tail(instruction_data)
    IN  CASE h = "transfer" -> main_process_transfer(accounts, rest_of_data, cfg)
          [] h = "mint" -> main_process_mint(accounts, rest_of_data, cfg, current_supply, oc)
          [] h = "burn" -> main_process_burn(accounts, rest_of_data, cfg)
          [] h = "initialize" ->
                IF Len(rest_of_data) < InitPayloadLen
                THEN Outcome(ProgramError("InvalidInstructionData"), cfg, NoIx)
                ELSE main_process_initialize(
                         accounts,
                         SubSeq(rest_of_data, 1, PubkeyLen),
                         from_le_bytes(SubSeq(rest_of_data, PubkeyLen + 1, InitPayloadLen)),
                         cfg)
          [] OTHER -> Outcome(ProgramError("InvalidInstructionData"), cfg, NoIx)

----------------------------------------------------------------------------
(* The host runtime and the SPL token ledger behind invoke() *)

\* The instruction builders mark the authority (third account) as a signer;
\* the runtime refuses a cross-program call that claims a signature the
\* caller's account does not carry.  Otherwise the ledger applies its own
\* rules (ledger_ok: ownership, balances, mint authority) and keeps
\* Mint.supply: mint_to adds with a checked addition, burn subtracts.
invoke(ix, accounts, current_supply, ledger_ok) ==
    IF ~accounts[3].is_signer
    THEN [res |-> ProgramError("PrivilegeEscalation"), supply |-> current_supply]
    ELSE IF ~ledger_ok
    THEN [res |-> ProgramError("LedgerError"), supply |-> current_supply]
    ELSE CASE ix.kind = "mint_to" ->
                IF current_supply + ix.amount > U64Max
                THEN [res |-> ProgramError("LedgerError"), supply |-> current_supply]
                ELSE [res |-> Ok, supply |-> current_supply + ix.amount]
           [] ix.kind = "burn" ->
                IF ix.amount > current_supply
                THEN [res |-> ProgramError("LedgerError"), supply |-> current_supply]
                ELSE [res |-> Ok, supply |-> current_supply - ix.amount]
           [] OTHER -> [res |-> Ok, supply |-> current_supply]

----------------------------------------------------------------------------
(* Requests *)

Amounts == {0, 1, U64Max}
Caps == {1, U64Max}

Request(data, accounts) == [data |-> data, accounts |-> accounts]
NoRequest == Request(<< >>, << >>)

\* the first n accounts of a positional account list
Prefix(accounts, n) == SubSeq(accounts, 1, n)

\* 8-byte amounts, and one payload a byte short and one a byte long
AmountPayloads ==
    {to_le_bytes(a) : a \in Amounts}
        \cup {SubSeq(to_le_bytes(1), 1, U64Len - 1), to_le_bytes(1) \o << 0 >>}

\* 40-byte admin + max_supply, and one payload a byte short and one a byte long
InitPayloads ==
    {KeyOf(k) \o to_le_bytes(c) : k \in Signers, c \in Caps}
        \cup {SubSeq(KeyOf("alice") \o to_le_bytes(1), 1, InitPayloadLen - 1),
              KeyOf("alice") \o to_le_bytes(1) \o << 0 >>}

TransferRequests ==
    {Request(<< 0 >> \o p,
             Prefix(<< AccountInfo("source", FALSE), AccountInfo("destination", FALSE),
                       AccountInfo("alice", s), AccountInfo("token_program", FALSE) >>, n)) :
        p \in AmountPayloads, s \in BOOLEAN, n \in 3..4}

\* every authority, signer flag and configuration account with the five
\* accounts present, the requests that stop one account short, and the
\* requests that name a token account where the mint-state belongs
MintRequests ==
    {Request(<< 1 >> \o p,
             << AccountInfo("mint", FALSE), AccountInfo("destination", FALSE),
                AccountInfo(a, s), AccountInfo("token_program", FALSE),
                AccountInfo(c, FALSE) >>) :
        p \in AmountPayloads, a \in Signers, s \in BOOLEAN, c \in ConfigAccounts}
    \cup
    {Request(<< 1 >> \o p,
             << AccountInfo("mint", FALSE), AccountInfo("destination", FALSE),
                AccountInfo("alice", s), AccountInfo("token_program", FALSE) >>) :
        p \in AmountPayloads, s \in BOOLEAN}
    \cup
    {Request(<< 1 >> \o to_le_bytes(1),
             << AccountInfo("source", FALSE), AccountInfo("destination", FALSE),
                AccountInfo(a, s), AccountInfo("token_program", FALSE),
                AccountInfo(c, FALSE) >>) :
        a \in Signers, s \in BOOLEAN, c \in {"config", "config_large"}}

BurnRequests ==
    {Request(<< 2 >> \o p,
             Prefix(<< AccountInfo("source", FALSE), AccountInfo("mint", FALSE),
                       AccountInfo("alice", s), AccountInfo("token_program", FALSE) >>, n)) :
        p \in AmountPayloads, s \in BOOLEAN, n \in 3..4}

\* the configuration account alone, signed or not; no account at all; and
\* the configuration account followed by a signing caller
InitializeRequests ==
    {Request(<< 3 >> \o p, Prefix(<< AccountInfo(c, s) >>, n)) :
        p \in InitPayloads, c \in ConfigAccounts, s \in BOOLEAN, n \in 0..1}
    \cup
    {Request(<< 3 >> \o p, << AccountInfo(c, FALSE), AccountInfo(a, TRUE) >>) :
        p \in InitPayloads, c \in ConfigAccounts, a \in {"bob"}}

\* no opcode byte, or an opcode byte no handler answers to
UnknownRequests ==
    {Request(d, << AccountInfo("config", FALSE) >>) :
        d \in {<< >>, << 4 >>, << 4 >> \o to_le_bytes(1)}}

----------------------------------------------------------------------------
(* The state machine: one step is one request run to completion *)

Init ==
    /\ program \in {"lib", "main"}
    /\ config = [id \in ConfigAccounts |-> [i \in 1..ConfigLen(id) |-> 0]]
    /\ supply = 0
    /\ nreq = 0
    /\ req = NoRequest
    /\ handler = "none"
    /\ res = NoResult
    /\ cpi = NoIx

\* entrypoint!(process_instruction) of the program that is deployed
process_instruction(accounts, instruction_data, cfg, current_supply, oc) ==
    IF program = "lib"
    THEN lib_process_instruction(accounts, instruction_data, cfg, current_supply, oc)
    ELSE main_process_instruction(accounts, instruction_data, cfg, current_supply, oc)

dispatch(instruction_data) ==
    IF program = "lib" THEN lib_dispatch(instruction_data) ELSE main_dispatch(instruction_data)

\* The outcomes of request r.  `current_supply + amount` is a plain u64
\* addition: where it overflows, a build with overflow checks panics and a
\* build without them goes on with the wrapped sum; the builds agree elsewhere.
Outcomes(r) ==
    LET checked == process_instruction(r.accounts, r.data, config, supply, TRUE)
    IN  IF checked.res = Panicked
        THEN {checked, process_instruction(r.accounts, r.data, config, supply, FALSE)}
        ELSE {checked}

\* request r runs: the handler's outcome, then the invoke() it reached, which
\* the ledger accepts or rejects by its own rules
Process(r) ==
    \E out \in Outcomes(r) :
        /\ nreq < MaxRequests
        /\ nreq' = nreq + 1
        /\ req' = r
        /\ handler' = dispatch(r.data)
        /\ cpi' = out.ix
        /\ config' = out.config
        /\ IF out.ix = NoIx
           THEN res' = out.res /\ supply' = supply
           ELSE \E ledger_ok \in BOOLEAN :
                    LET callee == invoke(out.ix, r.accounts, supply, ledger_ok)
                    IN  res' = callee.res /\ supply' = callee.supply
        /\ UNCHANGED program

Transfer == \E r \in TransferRequests : Process(r)
Mint == \E r \in MintRequests : Process(r)
Burn == \E r \in BurnRequests : Process(r)
Initialize == \E r \in InitializeRequests : Process(r)
Unknown == \E r \in UnknownRequests : Process(r)

Next == Transfer \/ Mint \/ Burn \/ Initialize \/ Unknown

Spec == Init /\ [][Next]_vars

TypeOK ==
    /\ program \in {"lib", "main"}
    /\ \A id \in ConfigAccounts : Len(config[id]) = ConfigLen(id)
    /\ supply \in 0..U64Max
    /\ nreq \in 0..MaxRequests
    /\ handler \in {"none", "transfer", "mint", "burn", "initialize"}

----------------------------------------------------------------------------
(* Vocabulary of the properties *)

\* the specification's failure names, as the codes the library returns
InvalidRequestError == ProgramError("InvalidInstructionData")
InvalidAmountError == Custom(InvalidAmount)
AlreadyInitializedError == ProgramError("AccountAlreadyInitialized")
MissingSignatureError == ProgramError("MissingRequiredSignature")
UnauthorizedMintError == Custom(UnauthorizedMint)
MaxSupplyExceededError == Custom(MaxSupplyExceeded)

\* the payload of request r is an 8-byte amount; the amount it carries
HasAmount(r) == Len(r.data) = 1 + U64Len
AmountOf(r) == from_le_bytes(Tail(r.data))

\* the authority of a Transfer, Mint or Burn request (third account)
HasAuthority(r) == Len(r.accounts) >= 3
AuthorityOf(r) == r.accounts[3]

\* the configuration record a Mint request names (fifth account), as stored in cfg
HasRecord(r, cfg) == Len(r.accounts) >= 5 /\ try_from_slice(cfg[r.accounts[5].id]).ok
RecordOf(r, cfg) == try_from_slice(cfg[r.accounts[5].id]).value

\* the record stored in configuration account id is initialized
Initialized(cfg, id) == try_from_slice(cfg[id]).ok /\ try_from_slice(cfg[id]).value.initialized

\* a Mint request signed by the admin of a readable record, with an 8-byte amount
AuthorizedMint(r, cfg) ==
    /\ HasAmount(r)
    /\ HasRecord(r, cfg)
    /\ AuthorityOf(r).is_signer
    /\ KeyOf(AuthorityOf(r).id) = RecordOf(r, cfg).admin_pubkey

\* the configuration accounts as allocated, before any request
BlankConfig == [id \in ConfigAccounts |-> [i \in 1..ConfigLen(id) |-> 0]]

----------------------------------------------------------------------------
(* Properties *)

\* C1: right after every successful Mint against configuration record C and
\* mint-state M, the outstanding supply of M is at most C.max_supply.
C1_SupplyCap ==
    (handler = "mint" /\ res = Ok) => supply <= RecordOf(req, config).max_supply

\* C1 witness: a successful Mint of a positive amount that fills the cap exactly
C1_Witness ==
    /\ handler = "mint" /\ res = Ok /\ cpi.amount > 0
    /\ supply = RecordOf(req, config).max_supply

\* C2 (as stated): in the library, a Mint of an 8-byte amount whose authority
\* differs from the admin of the record fails with UnauthorizedMint and
\* invokes nothing.
C2_Original ==
    (/\ program = "lib" /\ handler = "mint"
     /\ HasAmount(req)
     /\ HasRecord(req, config)
     /\ KeyOf(AuthorityOf(req).id) /= RecordOf(req, config).admin_pubkey)
        => (res = UnauthorizedMintError /\ cpi = NoIx)

\* C2 (amended): in the library, a mint is delegated only for an authority that
\* is flagged signer and equals the admin of the record; an authority that
\* differs from the admin never gets an invocation and the Mint fails, with
\* UnauthorizedMint when that authority is flagged signer and the amount is
\* 8 bytes, whatever the supply.
C2_MintAuthorization ==
    (program = "lib" /\ handler = "mint") =>
        /\ cpi /= NoIx =>
              /\ AuthorityOf(req).is_signer
              /\ KeyOf(AuthorityOf(req).id) = RecordOf(req, config).admin_pubkey
        /\ (/\ HasRecord(req, config)
            /\ KeyOf(AuthorityOf(req).id) /= RecordOf(req, config).admin_pubkey) =>
              /\ cpi = NoIx
              /\ res /= Ok
              /\ (HasAmount(req) /\ AuthorityOf(req).is_signer) => res = UnauthorizedMintError

\* C2 witness: a signed Mint by bob against a record whose admin is alice,
\* with supply outstanding, refused as UnauthorizedMint
C2_Witness ==
    /\ program = "lib" /\ handler = "mint"
    /\ HasRecord(req, config) /\ Initialized(config, req.accounts[5].id)
    /\ AuthorityOf(req).is_signer
    /\ KeyOf(AuthorityOf(req).id) /= RecordOf(req, config).admin_pubkey
    /\ supply > 0
    /\ res = UnauthorizedMintError /\ cpi = NoIx

\* C3 (as stated): every Initialize issued against a record whose flag is
\* true fails with AlreadyInitialized, whatever payload it carries.
C3_Original ==
    [][(/\ handler' = "initialize"
        /\ Len(req'.accounts) >= 1
        /\ Initialized(config, req'.accounts[1].id))
           => res' = AlreadyInitializedError]_vars

\* C3 (amended): a record whose flag is true keeps its flag, admin and
\* max_supply in every step, and an Initialize against it with a payload of
\* at least 40 bytes fails with AlreadyInitialized (a shorter payload fails
\* with InvalidRequest).
C3_NoReinitialization ==
    [][\A id \in ConfigAccounts :
          Initialized(config, id) =>
              /\ try_from_slice(config'[id]) = try_from_slice(config[id])
              /\ (/\ handler' = "initialize"
                  /\ Len(req'.accounts) >= 1
                  /\ req'.accounts[1].id = id) =>
                     res' = IF Len(req'.data) >= 1 + InitPayloadLen
                            THEN AlreadyInitializedError
                            ELSE InvalidRequestError]_vars

\* C3 witness: an Initialize naming another admin, refused as
\* AlreadyInitialized by a record that keeps its own
C3_Witness ==
    /\ handler = "initialize" /\ res = AlreadyInitializedError
    /\ Initialized(config, req.accounts[1].id)
    /\ SubSeq(Tail(req.data), 1, PubkeyLen)
           /= try_from_slice(config[req.accounts[1].id]).value.admin_pubkey

\* C4: once a record is initialized its bytes (admin, max_supply, flag) never
\* change again, whatever request follows and whether it succeeds; Transfer,
\* Mint and Burn leave every configuration record unchanged.
C4_Immutable ==
    [][/\ \A id \in ConfigAccounts : Initialized(config, id) => config'[id] = config[id]
       /\ handler' \in {"transfer", "mint", "burn"} => config' = config]_vars

\* C4 witness: a delegated Mint has succeeded against an initialized record
C4_Witness ==
    /\ handler = "mint" /\ res = Ok /\ cpi.kind = "mint_to"
    /\ Initialized(config, req.accounts[5].id)
    /\ nreq >= 2

\* C5: an authorized Mint whose current_supply + amount leaves the 64-bit
\* range fails with MaxSupplyExceeded and delegates nothing.
C5_OverflowRejected ==
    [][(/\ handler' = "mint"
        /\ AuthorizedMint(req', config)
        /\ supply + AmountOf(req') > U64Max)
           => (res' = MaxSupplyExceededError /\ cpi' = NoIx)]_vars

\* C6: for a signed Mint by the admin of an initialized record, a sum above
\* max_supply fails with MaxSupplyExceeded and delegates nothing, and a sum
\* equal to max_supply delegates the mint.
C6_CapBoundary ==
    [][(/\ program' = "lib" /\ handler' = "mint"
        /\ AuthorizedMint(req', config)
        /\ RecordOf(req', config).initialized) =>
           /\ supply + AmountOf(req') > RecordOf(req', config).max_supply =>
                 (res' = MaxSupplyExceededError /\ cpi' = NoIx)
           /\ supply + AmountOf(req') = RecordOf(req', config).max_supply =>
                 (cpi'.kind = "mint_to" /\ cpi'.amount = AmountOf(req'))]_vars

\* C7: in the library, a Transfer of a positive amount whose authority is not
\* flagged signer fails with MissingSignature and delegates nothing.
C7_TransferSigned ==
    (/\ program = "lib" /\ handler = "transfer"
     /\ HasAmount(req) /\ AmountOf(req) > 0
     /\ Len(req.accounts) = 4
     /\ ~AuthorityOf(req).is_signer)
        => (res = MissingSignatureError /\ cpi = NoIx)

\* C8 (as stated): in the library, every Burn whose authority is not flagged
\* signer fails with MissingSignature and delegates nothing.
C8_Original ==
    (/\ program = "lib" /\ handler = "burn"
     /\ HasAuthority(req) /\ ~AuthorityOf(req).is_signer)
        => (res = MissingSignatureError /\ cpi = NoIx)

\* C8 (amended): in the library, a Burn whose authority is not flagged signer
\* fails and delegates nothing, with MissingSignature when its amount is 8
\* bytes and its four accounts are present; and a Burn does what it would do
\* against blank configuration records, whatever the records and the cap are.
C8_BurnSigned ==
    (program = "lib" /\ handler = "burn") =>
        /\ (HasAuthority(req) /\ ~AuthorityOf(req).is_signer) =>
              /\ cpi = NoIx
              /\ res /= Ok
              /\ (HasAmount(req) /\ Len(req.accounts) >= 4) => res = MissingSignatureError
        /\ cpi = lib_process_burn(req.accounts, Tail(req.data), BlankConfig).ix

\* C8 witness: an unsigned Burn of more than the cap of an initialized
\* record, refused for the signature alone
C8_Witness ==
    /\ program = "lib" /\ handler = "burn"
    /\ ~AuthorityOf(req).is_signer
    /\ Initialized(config, "config")
    /\ AmountOf(req) > try_from_slice(config["config"]).value.max_supply
    /\ res = MissingSignatureError /\ cpi = NoIx

\* C9: in the library, a Transfer whose 8-byte payload decodes to 0 fails
\* with InvalidAmount and delegates nothing, whatever accounts it carries.
C9_ZeroTransfer ==
    (/\ program = "lib" /\ handler = "transfer"
     /\ HasAmount(req) /\ AmountOf(req) = 0)
        => (res = InvalidAmountError /\ cpi = NoIx)

\* C9 witness: a zero Transfer that also lacks an account, refused as InvalidAmount
C9_Witness ==
    /\ program = "lib" /\ handler = "transfer"
    /\ HasAmount(req) /\ AmountOf(req) = 0
    /\ Len(req.accounts) < 4
    /\ res = InvalidAmountError

\* C10: an empty buffer, or a first byte outside {0,1,2,3}, fails with
\* InvalidRequest, changes no configuration record and invokes nothing; a
\* first byte of 0, 1, 2, 3 selects Transfer, Mint, Burn, Initialize.
C10_Dispatch ==
    [][nreq' > nreq =>
          /\ (req'.data = << >> \/ Head(req'.data) \notin 0..3) =>
                /\ handler' = "none"
                /\ res' = InvalidRequestError
                /\ cpi' = NoIx
                /\ config' = config
          /\ (req'.data /= << >> /\ Head(req'.data) = 0) =>
                (handler' = "transfer" /\ cpi'.kind \in {"none", "transfer"})
          /\ (req'.data /= << >> /\ Head(req'.data) = 1) =>
                (handler' = "mint" /\ cpi'.kind \in {"none", "mint_to"})
          /\ (req'.data /= << >> /\ Head(req'.data) = 2) =>
                (handler' = "burn" /\ cpi'.kind \in {"none", "burn"})
          /\ (req'.data /= << >> /\ Head(req'.data) = 3) =>
                (handler' = "initialize" /\ cpi' = NoIx)]_vars

\* C10 witness: a request with an unknown opcode and a valid amount behind it,
\* refused as InvalidRequest after a record was initialized
C10_Witness ==
    /\ nreq > 0 /\ Len(req.data) > 1 /\ Head(req.data) \notin 0..3
    /\ handler = "none" /\ res = InvalidRequestError /\ cpi = NoIx
    /\ Initialized(config, "config")

\* the little-endian value of the 8 bytes behind the opcode of request r,
\* written out byte by byte
LittleEndianOf(r) ==
    r.data[2] + r.data[3] * ByteBase + r.data[4] * ByteBase ^ 2 + r.data[5] * ByteBase ^ 3
      + r.data[6] * ByteBase ^ 4 + r.data[7] * ByteBase ^ 5 + r.data[8] * ByteBase ^ 6
      + r.data[9] * ByteBase ^ 7

\* C11: in the library, a Transfer, Mint or Burn whose payload is not exactly
\* 8 bytes fails with InvalidAmount and invokes nothing, whatever accounts it
\* carries; the amount of every delegated instruction is the little-endian
\* value of the 8 payload bytes.
C11_AmountDecoding ==
    (program = "lib" /\ handler \in {"transfer", "mint", "burn"}) =>
        /\ ~HasAmount(req) => (res = InvalidAmountError /\ cpi = NoIx)
        /\ cpi /= NoIx => (HasAmount(req) /\ cpi.amount = LittleEndianOf(req))

\* C11 witness: a signed Mint by the admin with a 9-byte payload, refused as
\* InvalidAmount although everything else about it would pass
C11_Witness ==
    /\ program = "lib" /\ handler = "mint"
    /\ Len(req.data) = 2 + U64Len
    /\ HasRecord(req, config) /\ Initialized(config, req.accounts[5].id)
    /\ AuthorityOf(req).is_signer
    /\ KeyOf(AuthorityOf(req).id) = RecordOf(req, config).admin_pubkey
    /\ res = InvalidAmountError /\ cpi = NoIx

\* every account a handler hands to invoke() as authority is flagged signer
FullySigned(r) == HasAuthority(r) => AuthorityOf(r).is_signer

\* C12 (as stated, for library requests whose authority is flagged signer): a
\* request that fails leaves every configuration record as it was and has
\* invoked no ledger instruction.
C12_Original ==
    [][(program' = "lib" /\ nreq' > nreq /\ res' /= Ok /\ FullySigned(req'))
           => (config' = config /\ cpi' = NoIx)]_vars

\* C12 (amended): a request that fails leaves every configuration record byte
\* for byte as it was and the ledger's supply as it was; it has invoked no
\* ledger instruction unless the failure is the refusal of that invocation
\* itself, passed through from the ledger or the host.
C12_AtomicFailure ==
    [][(nreq' > nreq /\ res' /= Ok) =>
          /\ config' = config
          /\ supply' = supply
          /\ cpi' /= NoIx =>
                res' \in {ProgramError("LedgerError"), ProgramError("PrivilegeEscalation")}]_vars

\* C12 witness: an Initialize naming another cap fails against an initialized
\* record, which still holds the cap it was given
C12_Witness ==
    /\ handler = "initialize" /\ res /= Ok
    /\ Len(req.accounts) >= 1 /\ Initialized(config, req.accounts[1].id)
    /\ Len(req.data) >= 1 + InitPayloadLen
    /\ from_le_bytes(SubSeq(req.data, PubkeyLen + 2, InitPayloadLen + 1))
           /= try_from_slice(config[req.accounts[1].id]).value.max_supply

\* C13: an Initialize is accepted only with a payload of exactly 40 bytes; a
\* shorter payload fails with InvalidRequest and leaves the records unchanged.
C13_ExactPayload ==
    [][handler' = "initialize" =>
          /\ Len(req'.data) /= 1 + InitPayloadLen => (res' /= Ok /\ config' = config)
          /\ Len(req'.data) < 1 + InitPayloadLen => res' = InvalidRequestError]_vars

\* request r is an Initialize with a 40-byte payload that names a target record
WellFormedInitialize(r) ==
    /\ Len(r.data) = 1 + InitPayloadLen
    /\ r.data[1] = 3
    /\ Len(r.accounts) >= 1
    /\ r.accounts[1].id \in ConfigAccounts

\* the flag byte of the stored record (offset 8) is set
FlagSet(data) == Len(data) > U64Len /\ data[U64Len + 1] /= 0

\* C14: a well-formed Initialize on a record whose flag is not set succeeds for
\* every storage size at least as large as the serialized record, and writes
\* max_supply, initialized=true and admin into it.
C14_StorageLargeEnough ==
    [][(program' = "lib" /\ nreq' > nreq /\ WellFormedInitialize(req')
          /\ Len(config[req'.accounts[1].id]) >= SerializedLen
          /\ ~FlagSet(config[req'.accounts[1].id]))
         => /\ res' = Ok
            /\ SubSeq(config'[req'.accounts[1].id], 1, SerializedLen)
                 = SubSeq(req'.data, 2 + PubkeyLen, 1 + InitPayloadLen) \o << 1 >>
                     \o SubSeq(req'.data, 2, 1 + PubkeyLen)]_vars

\* taxonomy entry InvalidStorage: an Initialize whose target storage is smaller
\* than the serialized record
FailsInvalidStorage(r, cfg) ==
    /\ WellFormedInitialize(r)
    /\ Len(cfg[r.accounts[1].id]) < SerializedLen

\* taxonomy entry InvalidConfigData: a signed Mint with an 8-byte amount whose
\* configuration record cannot be read
FailsInvalidConfigData(r, cfg) ==
    /\ Len(r.data) > 0 /\ r.data[1] = 1
    /\ HasAmount(r)
    /\ Len(r.accounts) >= 5
    /\ AuthorityOf(r).is_signer
    /\ ~try_from_slice(cfg[r.accounts[5].id]).ok

\* C15: the failure code returned to the caller is distinct for each taxonomy
\* entry: the code an Initialize gets for InvalidStorage is never the code a
\* Mint gets for InvalidConfigData.
C15_DistinctTags ==
    [][(program' = "lib" /\ nreq' > nreq /\ FailsInvalidStorage(req', config))
         => \A r2 \in MintRequests :
                FailsInvalidConfigData(r2, config) =>
                    lib_process_instruction(r2.accounts, r2.data, config, supply, TRUE).res
                        /= res']_vars

\* the record an Initialize payload p asks for, with the given flag
PayloadRecord(p, flag) ==
    TokenConfig(from_le_bytes(SubSeq(p, PubkeyLen + 1, InitPayloadLen)), flag,
                SubSeq(p, 1, PubkeyLen))

\* the records at hand in a state: the default record, every readable stored
\* record, and the record of the last Initialize payload under either flag
RecordsInPlay ==
    {TokenConfigDefault}
        \cup {try_from_slice(config[id]).value :
                 id \in {i \in ConfigAccounts : try_from_slice(config[i]).ok}}
        \cup (IF handler = "initialize" /\ Len(req.data) >= 1 + InitPayloadLen
              THEN {PayloadRecord(Tail(req.data), f) : f \in BOOLEAN}
              ELSE {})

\* C16: every configuration record serializes to the 41-byte layout
\* max_supply (8 bytes little-endian) | initialized (1 byte) | admin (32 bytes)
\* and deserializes from it to the same field values; the record a successful
\* Initialize writes reads back as the payload's values with the flag set, and
\* a Mint delegated against an initialized record has read the admin that an
\* Initialize payload wrote.
C16_RoundTrip ==
    /\ \A c \in RecordsInPlay :
          LET enc == try_to_vec(c) IN
          /\ Len(enc) = U64Len + 1 + PubkeyLen
          /\ from_le_bytes(SubSeq(enc, 1, U64Len)) = c.max_supply
          /\ enc[U64Len + 1] = (IF c.initialized THEN 1 ELSE 0)
          /\ SubSeq(enc, U64Len + 2, U64Len + 1 + PubkeyLen) = c.admin_pubkey
          /\ try_from_slice(enc) = [ok |-> TRUE, value |-> c]
    /\ (handler = "initialize" /\ res = Ok) =>
          try_from_slice(config[req.accounts[1].id])
              = [ok |-> TRUE, value |-> PayloadRecord(Tail(req.data), TRUE)]
    /\ (handler = "mint" /\ cpi /= NoIx /\ Initialized(config, req.accounts[5].id)) =>
          \E p \in {q \in InitPayloads : Len(q) >= InitPayloadLen} :
              /\ RecordOf(req, config) = PayloadRecord(p, TRUE)
              /\ KeyOf(AuthorityOf(req).id) = SubSeq(p, 1, PubkeyLen)

\* C16 witness: a Mint went through against a record that an Initialize wrote
C16_Witness ==
    /\ handler = "mint" /\ res = Ok /\ cpi.amount = 1
    /\ Initialized(config, req.accounts[5].id)
    /\ RecordOf(req, config).admin_pubkey = KeyOf("alice")

\* request r is a Mint with an 8-byte amount and the five accounts of a Mint
ParsedMint(r) ==
    /\ HasAmount(r) /\ r.data[1] = 1
    /\ Len(r.accounts) >= 5

\* C17: a Mint is checked in the order signature of the mint authority, load
\* of the configuration record, admin match, supply-cap comparison, delegation:
\* the failure reported is that of the earliest step that fails, the supply of
\* the mint-state account is read only once the admin check has passed, and
\* nothing is delegated unless every step passed.
C17_MintCheckOrder ==
    [][(program' = "lib" /\ nreq' > nreq /\ ParsedMint(req')) =>
          LET authority == AuthorityOf(req')
              loaded == try_from_slice(config[req'.accounts[5].id])
              is_admin == KeyOf(authority.id) = loaded.value.admin_pubkey
              unpacked == ~unpack_fails(req'.accounts[1])
              amount == AmountOf(req')
          IN  /\ ~authority.is_signer =>
                    (res' = MissingSignatureError /\ cpi' = NoIx)
              /\ (authority.is_signer /\ ~loaded.ok) =>
                    (res' = ProgramError("InvalidAccountData") /\ cpi' = NoIx)
              /\ (authority.is_signer /\ loaded.ok /\ ~is_admin) =>
                    (res' = UnauthorizedMintError /\ cpi' = NoIx)
              /\ (authority.is_signer /\ loaded.ok /\ is_admin /\ ~unpacked) =>
                    (res' = ProgramError("InvalidAccountData") /\ cpi' = NoIx)
              /\ (authority.is_signer /\ loaded.ok /\ is_admin /\ unpacked
                    /\ supply + amount <= U64Max
                    /\ supply + amount > loaded.value.max_supply) =>
                    (res' = MaxSupplyExceededError /\ cpi' = NoIx)
              /\ cpi' /= NoIx =>
                    /\ authority.is_signer /\ loaded.ok /\ is_admin /\ unpacked
                    /\ (supply + amount) % U64Mod <= loaded.value.max_supply]_vars

\* C17 witness: a signed Mint by a non-admin for more than the cap allows was
\* refused as unauthorized
C17_Witness ==
    /\ program = "lib" /\ handler = "mint" /\ ParsedMint(req)
    /\ AuthorityOf(req).is_signer
    /\ Initialized(config, req.accounts[5].id)
    /\ KeyOf(AuthorityOf(req).id) /= RecordOf(req, config).admin_pubkey
    /\ supply + AmountOf(req) > RecordOf(req, config).max_supply
    /\ res = UnauthorizedMintError

\* the instruction of the given kind over the first three accounts of request
\* r, in their order, for the amount its payload spells
Delegated(kind, r) ==
    Instruction(kind, << r.accounts[1].id, r.accounts[2].id, r.accounts[3].id >>,
                LittleEndianOf(r))

\* C18: a successful request reaches the ledger with at most one instruction:
\* none for Initialize, and for opcode 0/1/2 a transfer/mint/burn of exactly the
\* decoded amount over the request's accounts in their positional roles; the
\* supply changes only by what the ledger does with that instruction.
C18_PassThrough ==
    [][(nreq' > nreq) =>
          /\ (handler' \in {"initialize", "none"}) => (cpi' = NoIx /\ supply' = supply)
          /\ cpi' = NoIx => supply' = supply
          /\ res' /= Ok => supply' = supply
          /\ (handler' = "transfer" /\ (res' = Ok \/ cpi' /= NoIx)) =>
                (cpi' = Delegated("transfer", req') /\ supply' = supply)
          /\ (handler' = "mint" /\ (res' = Ok \/ cpi' /= NoIx)) =>
                /\ cpi' = Delegated("mint_to", req')
                /\ res' = Ok => supply' = supply + LittleEndianOf(req')
          /\ (handler' = "burn" /\ (res' = Ok \/ cpi' /= NoIx)) =>
                /\ cpi' = Delegated("burn", req')
                /\ res' = Ok => supply' = supply - LittleEndianOf(req')]_vars

\* C18 witness: a Burn of one unit went through to the ledger
C18_Witness ==
    /\ program = "lib" /\ handler = "burn" /\ res = Ok
    /\ cpi = Delegated("burn", req) /\ cpi.amount = 1

\* C19: a Mint against a configuration record on which no Initialize has
\* succeeded (flag false, every field at its default) never reaches the ledger,
\* whatever the authority, signer flag, amount and supply.
C19_NoMintBeforeInitialize ==
    (program = "lib" /\ handler = "mint" /\ Len(req.accounts) >= 5
        /\ try_from_slice(config[req.accounts[5].id])
             = [ok |-> TRUE, value |-> TokenConfigDefault])
      => cpi = NoIx

\* the Initialize requests that differ from r only in the signer flags or in
\* the caller that comes with them: same payload, same target record
SameInitialize(r) ==
    {r2 \in InitializeRequests :
        /\ r2.data = r.data
        /\ Len(r2.accounts) >= 1
        /\ r2.accounts[1].id = r.accounts[1].id}

\* C20: two Initialize requests with the same payload on the same record state
\* that differ only in signer flags or caller have the same outcome and leave
\* the same record; so a well-formed Initialize on an uninitialized record
\* succeeds for any caller and fixes admin and max_supply.
C20_SignerIndependent ==
    [][(nreq' > nreq /\ handler' = "initialize" /\ Len(req'.accounts) >= 1) =>
          /\ \A r2 \in SameInitialize(req') :
                LET other == process_instruction(r2.accounts, r2.data, config, supply, TRUE)
                IN  other.res = res' /\ other.config = config' /\ other.ix = cpi'
          /\ (Len(req'.data) >= 1 + InitPayloadLen
                /\ try_from_slice(config[req'.accounts[1].id]).ok
                /\ ~Initialized(config, req'.accounts[1].id)) =>
                /\ res' = Ok
                /\ try_from_slice(config'[req'.accounts[1].id]).value
                     = PayloadRecord(Tail(req'.data), TRUE)]_vars

\* C20 witness: an Initialize nobody signed went through, and it has twins that are
\* signed by the record's account and by another caller
C20_Witness ==
    /\ handler = "initialize" /\ res = Ok
    /\ Len(req.accounts) = 1 /\ ~req.accounts[1].is_signer
    /\ \E r2 \in SameInitialize(req) : r2.accounts[1].is_signer
    /\ \E r2 \in SameInitialize(req) : Len(r2.accounts) = 2 /\ r2.accounts[2].is_signer

====
